---- MODULE Spec2Model ----
(***************************************************************************)
(* helm-version-check: the reconciliation loop of cmd/main.go.             *)
(*                                                                         *)
(* Strings are TLA+ strings; a character of a string is the one-character  *)
(* string SubSeq(s, i, i).  Untyped values (interface{}) are records       *)
(* [t, v] where t is the dynamic type and v the string payload.            *)
(***************************************************************************)
EXTENDS Integers, Sequences, FiniteSets, TLC

(***************************************************************************)
(* Bounds of the model.                                                    *)
(***************************************************************************)
MaxCycles == 2
MaxLen == 3

(***************************************************************************)
(* Strings.                                                                *)
(***************************************************************************)
Ch(s, i) == SubSeq(s, i, i)

\* strings.HasSuffix
HasSuffix(s, suf) ==
    Len(s) >= Len(suf) /\ SubSeq(s, Len(s) - Len(suf) + 1, Len(s)) = suf

Digits == "0123456789"

\* the characters of a pre-release / metadata identifier, in ASCII order
IdentChars == "-0123456789ABCDEFGHIJKLMNOPQRSTUVWXYZabcdefghijklmnopqrstuvwxyz"

IsDigit(c) == \E i \in 1..Len(Digits) : Ch(Digits, i) = c

DigitVal(c) == (CHOOSE i \in 1..Len(Digits) : Ch(Digits, i) = c) - 1

IsIdentChar(c) == \E i \in 1..Len(IdentChars) : Ch(IdentChars, i) = c

Rank(c) == CHOOSE i \in 1..Len(IdentChars) : Ch(IdentChars, i) = c

RECURSIVE RunEnd(_, _, _)
\* index just past the longest run, starting at i, of characters of class
\* "d" (digits) or "i" (identifier characters and dots)
RunEnd(s, i, class) ==
    IF i > Len(s) THEN i
    ELSE LET c == Ch(s, i)
             in == IF class = "d" THEN IsDigit(c) ELSE IsIdentChar(c) \/ c = "."
         IN  IF in THEN RunEnd(s, i + 1, class) ELSE i

RECURSIVE ParseNat(_)
ParseNat(s) ==
    IF Len(s) = 0 THEN 0
    ELSE 10 * ParseNat(SubSeq(s, 1, Len(s) - 1)) + DigitVal(Ch(s, Len(s)))

AllDigits(s) == Len(s) > 0 /\ \A i \in 1..Len(s) : IsDigit(Ch(s, i))

RECURSIVE SplitDots(_)
\* the dot-separated identifiers of s, as a sequence of strings
SplitDots(s) ==
    LET e == CHOOSE k \in 1..(Len(s) + 1) :
                 /\ k = Len(s) + 1 \/ Ch(s, k) = "."
                 /\ \A j \in 1..(k - 1) : Ch(s, j) # "."
    IN  IF e > Len(s) THEN <<s>>
        ELSE <<SubSeq(s, 1, e - 1)>> \o SplitDots(SubSeq(s, e + 1, Len(s)))

\* [0-9A-Za-z\-]+(\.[0-9A-Za-z\-]+)*
ValidIdents(s) == \A k \in 1..Len(SplitDots(s)) : Len(SplitDots(s)[k]) > 0

(***************************************************************************)
(* github.com/Masterminds/semver/v3 as the program uses it.                *)
(* A *Version is [ok, major, minor, patch, pre]; ok = FALSE is the nil     *)
(* pointer that NewVersion returns together with its error.                *)
(***************************************************************************)
NilVersion == [ok |-> FALSE, major |-> 0, minor |-> 0, patch |-> 0, pre |-> ""]

\* the end of an optional ".N" that starts at e (e itself if there is none)
OptSegEnd(str, e) ==
    IF e <= Len(str) /\ Ch(str, e) = "." /\ RunEnd(str, e + 1, "d") > e + 1
    THEN RunEnd(str, e + 1, "d") ELSE e

\* the number of the ".N" between a and b, 0 if there is none
SegVal(str, a, b) == IF b > a THEN ParseNat(SubSeq(str, a + 1, b - 1)) ELSE 0

\* the end of an optional "-pre" or "+meta" that starts at e
OptTagEnd(str, e, mark) ==
    IF e <= Len(str) /\ Ch(str, e) = mark THEN RunEnd(str, e + 1, "i") ELSE e

Tag(str, a, b) == IF b > a THEN SubSeq(str, a + 1, b - 1) ELSE ""

TagOK(str, a, b) == b = a \/ ValidIdents(Tag(str, a, b))

Finish(str, major, minor, patch, e3, e4, e5) ==
    IF TagOK(str, e3, e4) /\ TagOK(str, e4, e5) /\ e5 = Len(str) + 1
    THEN [ok |-> TRUE, major |-> major, minor |-> minor, patch |-> patch,
          pre |-> Tag(str, e3, e4)]
    ELSE NilVersion

AfterPre(str, major, minor, patch, e3, e4) ==
    Finish(str, major, minor, patch, e3, e4, OptTagEnd(str, e4, "+"))

AfterPatch(str, major, minor, e2, e3) ==
    AfterPre(str, major, minor, SegVal(str, e2, e3), e3, OptTagEnd(str, e3, "-"))

AfterMinor(str, major, e1, e2) ==
    AfterPatch(str, major, SegVal(str, e1, e2), e2, OptSegEnd(str, e2))

AfterMajor(str, b, e1) ==
    IF e1 = b THEN NilVersion
    ELSE AfterMinor(str, ParseNat(SubSeq(str, b, e1 - 1)), e1, OptSegEnd(str, e1))

AfterPrefix(str, b) == AfterMajor(str, b, RunEnd(str, b, "d"))

\* semver.NewVersion: v?N(.N)?(.N)?(-pre)?(+meta)?, missing parts are 0
NewVersion(str) ==
    AfterPrefix(str, IF Len(str) > 0 /\ Ch(str, 1) = "v" THEN 2 ELSE 1)

compareSegment(a, b) == IF a < b THEN -1 ELSE IF a > b THEN 1 ELSE 0

RECURSIVE CompareString(_, _)
\* byte-wise comparison of two identifiers
CompareString(a, b) ==
    IF Len(a) = 0 /\ Len(b) = 0 THEN 0
    ELSE IF Len(a) = 0 THEN -1
    ELSE IF Len(b) = 0 THEN 1
    ELSE LET d == compareSegment(Rank(Ch(a, 1)), Rank(Ch(b, 1)))
         IN  IF d # 0 THEN d
             ELSE CompareString(SubSeq(a, 2, Len(a)), SubSeq(b, 2, Len(b)))

\* numeric identifiers compare numerically and sort before alphanumeric ones
comparePrePart(a, b) ==
    IF a = b THEN 0
    ELSE IF AllDigits(a) /\ AllDigits(b) THEN compareSegment(ParseNat(a), ParseNat(b))
    ELSE IF AllDigits(a) THEN -1
    ELSE IF AllDigits(b) THEN 1
    ELSE CompareString(a, b)

RECURSIVE comparePreSeq(_, _)
comparePreSeq(p, q) ==
    IF p = <<>> /\ q = <<>> THEN 0
    ELSE IF p = <<>> THEN -1
    ELSE IF q = <<>> THEN 1
    ELSE LET d == comparePrePart(Head(p), Head(q))
         IN  IF d # 0 THEN d ELSE comparePreSeq(Tail(p), Tail(q))

\* a release sorts after each of its pre-releases
comparePrerelease(a, b) ==
    IF a = "" /\ b = "" THEN 0
    ELSE IF a = "" THEN 1
    ELSE IF b = "" THEN -1
    ELSE comparePreSeq(SplitDots(a), SplitDots(b))

\* (*Version).Compare on two non-nil versions; metadata is not compared
Compare(v, o) ==
    IF compareSegment(v.major, o.major) # 0 THEN compareSegment(v.major, o.major)
    ELSE IF compareSegment(v.minor, o.minor) # 0 THEN compareSegment(v.minor, o.minor)
    ELSE IF compareSegment(v.patch, o.patch) # 0 THEN compareSegment(v.patch, o.patch)
    ELSE comparePrerelease(v.pre, o.pre)

\* (*Version).GreaterThan
GreaterThan(v, o) == Compare(v, o) > 0

\* (*Version).Equal on two non-nil versions
Equal(v, o) == Compare(v, o) = 0

(***************************************************************************)
(* Untyped values of an application object (interface{}).                  *)
(***************************************************************************)
Str(s) == [t |-> "string", v |-> s]
Absent == [t |-> "absent", v |-> ""]
NilVal == [t |-> "nil", v |-> ""]
IntVal == [t |-> "int", v |-> "7"]

\* x.(string): the string and whether the assertion succeeded
AsString(val) == IF val.t = "string" THEN val.v ELSE ""

(***************************************************************************)
(* The chart repositories.  A world gives, for each host, the answer to a  *)
(* GET of its index and whether the server takes "//index.yaml" for        *)
(* "/index.yaml".                                                          *)
(***************************************************************************)
NetErr == [t |-> "neterr", entries |-> [c \in {"-"} |-> <<>>]]
DecodeErr == [t |-> "decodeerr", entries |-> [c \in {"-"} |-> <<>>]]
Index(e) == [t |-> "ok", entries |-> e]

HasPrefix(s, pre) == Len(s) >= Len(pre) /\ SubSeq(s, 1, Len(pre)) = pre

TrimPrefix(s, pre) == SubSeq(s, Len(pre) + 1, Len(s))

\* what a host answers to a GET of url
Answer(host, url) ==
    IF host.answer.t = "neterr" THEN NetErr
    ELSE IF TrimPrefix(url, host.base) = "index.yaml" THEN host.answer
    ELSE IF TrimPrefix(url, host.base) = "/index.yaml" /\ host.mergeSlashes THEN host.answer
    ELSE DecodeErr

\* http.Get followed by yaml Decode of the body
HttpGet(w, url) ==
    IF \A h \in DOMAIN w : ~HasPrefix(url, w[h].base) THEN NetErr
    ELSE Answer(w[CHOOSE h \in DOMAIN w : HasPrefix(url, w[h].base)], url)

(***************************************************************************)
(* getLatestChartVersion                                                   *)
(***************************************************************************)
\* the URL of the index document
IndexURL(repoURL) == repoURL \o "/index.yaml"

\* lines 81-83 for the running maximum latest, its version current, the
\* next record v and its version next
Replace(latest, current, v, next) ==
    IF ~next.ok THEN [panic |-> FALSE, latest |-> latest]
    ELSE IF ~current.ok THEN [panic |-> TRUE, latest |-> latest]
    ELSE IF GreaterThan(next, current) THEN [panic |-> FALSE, latest |-> v]
    ELSE [panic |-> FALSE, latest |-> latest]

ScanStepNoReplace(latest, v) == [panic |-> FALSE, latest |-> latest]

\* one iteration of the loop over versions[1:]
ScanStep(latest, v) == Replace(latest, NewVersion(latest), v, NewVersion(v))

RECURSIVE ScanFrom(_, _)
ScanFrom(latest, rest) ==
    IF rest = <<>> THEN [panic |-> FALSE, latest |-> latest]
    ELSE IF ScanStep(latest, Head(rest)).panic THEN ScanStep(latest, Head(rest))
    ELSE ScanFrom(ScanStep(latest, Head(rest)).latest, Tail(rest))

\* the scan of a non-empty list of version records
ScanVersions(versions) == ScanFrom(versions[1], Tail(versions))

\* lines 85-88, or the panic of the scan
Scanned(url, r) ==
    IF r.panic THEN [res |-> "panic", latest |-> "", url |-> url]
    ELSE [res |-> "ok", latest |-> r.latest, url |-> url]

\* lines 43-88 for the answer resp to the GET of url
Resolve(chartName, url, resp) ==
    IF resp.t # "ok" THEN [res |-> "err", latest |-> "", url |-> url]
    ELSE IF chartName \notin DOMAIN resp.entries THEN [res |-> "err", latest |-> "", url |-> url]
    ELSE IF Len(resp.entries[chartName]) = 0 THEN [res |-> "err", latest |-> "", url |-> url]
    ELSE Scanned(url, ScanVersions(resp.entries[chartName]))

getLatestChartVersion(w, repoURL, chartName) ==
    Resolve(chartName, IndexURL(repoURL), HttpGet(w, IndexURL(repoURL)))

(***************************************************************************)
(* processHelmSource                                                       *)
(***************************************************************************)
NormalizeAlways(repoURL) == repoURL \o "/"

NormalizeNever(repoURL) == repoURL

\* lines 127-132
Normalize(repoURL) == IF HasSuffix(repoURL, "/") THEN repoURL ELSE repoURL \o "/"

NoDescriptor == [ok |-> FALSE, chartName |-> "", repoURL |-> "", chartVersion |-> ""]

\* lines 119-132 for the three strings read from the source map
Descriptor(chartName, repoURL, chartVersion) ==
    IF chartName = "" \/ repoURL = "" \/ chartVersion = "" THEN NoDescriptor
    ELSE [ok |-> TRUE, chartName |-> chartName, repoURL |-> Normalize(repoURL),
          chartVersion |-> chartVersion]

\* lines 93-132: the descriptor of a source map, or none
extract(source) ==
    IF source.chart.t \in {"absent", "nil"} THEN NoDescriptor
    ELSE Descriptor(AsString(source.chart), AsString(source.repoURL),
                    AsString(source.targetRevision))

\* lines 148-151.  err is the error of the second NewVersion only; Equal on
\* a nil receiver returns false in a build whose semver checks for nil and
\* dereferences the nil pointer otherwise.
StatusOf(currentVer, latestVer, nilSafe) ==
    IF ~latestVer.ok THEN [panic |-> FALSE, status |-> 0]
    ELSE IF ~currentVer.ok THEN [panic |-> ~nilSafe, status |-> 0]
    ELSE [panic |-> FALSE, status |-> IF Equal(currentVer, latestVer) THEN 1 ELSE 0]

\* lines 140-151
Status(chartVersion, latestVersion, nilSafe) ==
    StatusOf(NewVersion(chartVersion), NewVersion(latestVersion), nilSafe)

LabelValuesAppOnly(appName, d, latestVersion) == <<appName, "", "/", "", "">>

\* the label values of WithLabelValues, in the order of helmVersionGauge
LabelValues(appName, d, latestVersion) ==
    <<appName, d.chartName, d.repoURL, d.chartVersion, latestVersion>>

NoKey == <<"", "", "", "", "">>

\* the record of one call of processHelmSource: the URLs it fetched, how
\* the resolution ended, and the series it set
Call(appName, source, d, urls, res, latest, out, key, value) ==
    [app |-> appName, src |-> source, desc |-> d, fetched |-> urls, res |-> res,
     latest |-> latest, out |-> out, key |-> key, value |-> value]

\* lines 148-159
Compared(appName, source, d, r, st) ==
    IF st.panic
    THEN Call(appName, source, d, <<r.url>>, "ok", r.latest, "panic", NoKey, 0)
    ELSE Call(appName, source, d, <<r.url>>, "ok", r.latest, "set",
              LabelValues(appName, d, r.latest), st.status)

\* lines 135-151
Resolved(appName, source, nilSafe, d, r) ==
    IF r.res # "ok"
    THEN Call(appName, source, d, <<r.url>>, r.res, "", "none", NoKey, 0)
    ELSE Compared(appName, source, d, r, Status(d.chartVersion, r.latest, nilSafe))

\* lines 119-134
Extracted(appName, source, w, nilSafe, d) ==
    IF ~d.ok THEN Call(appName, source, d, <<>>, "none", "", "none", NoKey, 0)
    ELSE Resolved(appName, source, nilSafe, d,
                  getLatestChartVersion(w, d.repoURL, d.chartName))

processHelmSource(appName, source, w, nilSafe) ==
    Extracted(appName, source, w, nilSafe, extract(source))

SetGaugeFresh(s, key, value) == [k \in {key} |-> value]

\* GaugeVec.WithLabelValues(...).Set(value)
SetGauge(s, key, value) ==
    [k \in (DOMAIN s) \cup {key} |-> IF k = key THEN value ELSE s[k]]

(***************************************************************************)
(* The inputs of the model: source maps, applications, listings, worlds.   *)
(***************************************************************************)
Src(c, u, r) == [chart |-> c, repoURL |-> u, targetRevision |-> r]

NoMap == Src(Absent, Absent, Absent)

\* a value that is a map of a source, or something else
MapVal(m) == [t |-> "map", m |-> m]
OtherVal == [t |-> "other", m |-> NoMap]
MissingVal == [t |-> "absent", m |-> NoMap]

\* spec.sources: a sequence of values, or absent, or not a sequence
SeqVal(s) == [t |-> "seq", s |-> s]
NoSeq == [t |-> "absent", s |-> <<>>]
OtherSeq == [t |-> "other", s |-> <<>>]

\* an application object: its name and its spec
App(name, specType, source, sources) ==
    [name |-> name, spec |-> [t |-> specType, source |-> source, sources |-> sources]]

SrcNginxOld == Src(Str("nginx"), Str("https://x"), Str("1.0.0"))
SrcNginxNew == Src(Str("nginx"), Str("https://x/"), Str("1.2"))
SrcRedisBogus == Src(Str("redis"), Str("https://y/"), Str("bogus"))
SrcRedisOne == Src(Str("redis"), Str("https://y"), Str("1.0.0"))
SrcGit == Src(Absent, Str("https://x"), Str("1.0.0"))

\* the names of the applications of the namespace, in the order of a listing
AppNames == <<"a", "b">>

\* the shapes the application of a given name can have
AppShapes(n) ==
    IF n = "a"
    THEN { App(n, "map", MapVal(SrcRedisBogus), NoSeq),
           App(n, "map", MissingVal, SeqVal(<<MapVal(SrcNginxNew), MapVal(SrcRedisOne)>>)),
           App(n, "map", MapVal(SrcGit), SeqVal(<<OtherVal, MapVal(SrcNginxOld)>>)),
           App(n, "map", MissingVal, NoSeq),
           App(n, "absent", MissingVal, NoSeq) }
    ELSE { App(n, "map", MapVal(SrcRedisBogus), NoSeq),
           App(n, "map", MissingVal, SeqVal(<<MapVal(SrcNginxNew), MapVal(SrcRedisOne)>>)),
           App(n, "map", MapVal(SrcNginxOld), OtherSeq),
           App(n, "map", OtherVal, SeqVal(<<OtherVal>>)),
           App(n, "other", MissingVal, NoSeq) }

RECURSIVE ListingsOf(_)
\* the listings of length at most k: a listing names each application once
ListingsOf(k) ==
    IF k = 0 THEN {<<>>}
    ELSE LET shorter == ListingsOf(k - 1)
         IN  shorter \cup
             { Append(l, a) : l \in {m \in shorter : Len(m) = k - 1},
                              a \in AppShapes(AppNames[k]) }

Listings == ListingsOf(Len(AppNames))

Host(base, answer, merge) == [base |-> base, answer |-> answer, mergeSlashes |-> merge]

World(x, y) == [x |-> x, y |-> y]

Worlds ==
    { World(Host("https://x/", Index([c \in {"nginx"} |-> <<"1.0.0", "1.2.0", "1.1.0">>]), TRUE),
            Host("https://y/", Index([c \in {"redis"} |-> <<"1.0.0", "bogus", "1.1.0">>]), TRUE)),
      World(Host("https://x/", NetErr, TRUE),
            Host("https://y/", Index([c \in {"redis"} |-> <<"bogus">>]), TRUE)),
      World(Host("https://x/", Index([c \in {"nginx"} |-> <<"bogus", "1.0.0">>]), TRUE),
            Host("https://y/", DecodeErr, TRUE)),
      World(Host("https://x/", Index([c \in {"nginx", "redis"} |->
                                         IF c = "nginx" THEN <<"v1.2", "1.0.0+b1">> ELSE <<>>]), TRUE),
            Host("https://y/", Index([c \in {"nginx"} |-> <<"1.0.0">>]), TRUE)),
      World(Host("https://x/", Index([c \in {"nginx"} |-> <<"1.0.0">>]), FALSE),
            Host("https://y/", Index([c \in {"redis", "nginx"} |->
                                         IF c = "redis" THEN <<>> ELSE <<"1.0.0">>]), TRUE)) }

AnyWorld == CHOOSE w \in Worlds : TRUE

(***************************************************************************)
(* State.                                                                  *)
(***************************************************************************)
VARIABLES
    pc,           \* where main is: "list", "apps", "sleep", "crashed"; or "call"/"done"
    cycle,        \* the number of listings attempted
    apps,         \* list.Items of the current cycle
    world,        \* the chart repositories during the current cycle
    ai,           \* index of the application being processed
    si,           \* 0: spec.source is next; k > 0: spec.sources[k] is next
    sink,         \* helmVersionGauge: label values -> value
    nilSafe,      \* whether the semver of the build checks Equal's receiver for nil
    listed,       \* whether the listing of the current cycle succeeded
    sink0,        \* history: the sink when the current cycle started
    fetched,      \* history: the URLs fetched in the current cycle
    emitted,      \* history: the samples set in the current cycle
    skipped,      \* history: the descriptors whose resolution failed in the current cycle
    last,         \* history: the latest call of processHelmSource
    arg,          \* the argument of a function applied on its own
    ret           \* its result

vars == <<pc, cycle, apps, world, ai, si, sink, nilSafe, listed, sink0, fetched,
          emitted, skipped, last, arg, ret>>

EmptySink == [k \in {} |-> 0]

NoCall == [app |-> "", src |-> NoMap, desc |-> NoDescriptor, fetched |-> <<>>,
           res |-> "none", latest |-> "", out |-> "none", key |-> NoKey, value |-> 0]

Init ==
    /\ pc = "list"
    /\ cycle = 0
    /\ apps = <<>>
    /\ world = AnyWorld
    /\ ai = 1
    /\ si = 0
    /\ sink = EmptySink
    /\ nilSafe \in BOOLEAN
    /\ listed = FALSE
    /\ sink0 = EmptySink
    /\ fetched = <<>>
    /\ emitted = <<>>
    /\ skipped = <<>>
    /\ last = NoCall
    /\ arg = <<>>
    /\ ret = <<>>

\* line 222, err == nil: the listing and the repositories of this cycle
ListOK ==
    /\ pc = "list"
    /\ cycle < MaxCycles
    /\ \E l \in Listings, w \in Worlds :
        /\ apps' = l
        /\ world' = w
    /\ cycle' = cycle + 1
    /\ pc' = "apps"
    /\ ai' = 1
    /\ si' = 0
    /\ listed' = TRUE
    /\ sink0' = sink
    /\ fetched' = <<>>
    /\ emitted' = <<>>
    /\ skipped' = <<>>
    /\ last' = NoCall
    /\ UNCHANGED <<sink, nilSafe, arg, ret>>

ListFailResets ==
    /\ pc = "list"
    /\ cycle < MaxCycles
    /\ cycle' = cycle + 1
    /\ pc' = "sleep"
    /\ apps' = <<>>
    /\ ai' = 1
    /\ si' = 0
    /\ listed' = FALSE
    /\ sink0' = sink
    /\ sink' = EmptySink
    /\ fetched' = <<>>
    /\ emitted' = <<>>
    /\ skipped' = <<>>
    /\ last' = NoCall
    /\ UNCHANGED <<world, nilSafe, arg, ret>>

\* lines 223-230: the listing failed; sleep and try again
ListFail ==
    /\ pc = "list"
    /\ cycle < MaxCycles
    /\ cycle' = cycle + 1
    /\ pc' = "sleep"
    /\ apps' = <<>>
    /\ ai' = 1
    /\ si' = 0
    /\ listed' = FALSE
    /\ sink0' = sink
    /\ fetched' = <<>>
    /\ emitted' = <<>>
    /\ skipped' = <<>>
    /\ last' = NoCall
    /\ UNCHANGED <<world, sink, nilSafe, arg, ret>>

\* what a call with the record r does to the state
Effect(r) ==
    /\ last' = r
    /\ fetched' = fetched \o r.fetched
    /\ IF r.out = "set"
       THEN /\ sink' = SetGauge(sink, r.key, r.value)
            /\ emitted' = Append(emitted, [key |-> r.key, value |-> r.value])
       ELSE UNCHANGED <<sink, emitted>>
    /\ skipped' = IF r.res = "err" THEN Append(skipped, <<r.app, r.desc>>) ELSE skipped
    /\ pc' = IF r.res = "panic" \/ r.out = "panic" THEN "crashed" ELSE "apps"

\* the effect of one call processHelmSource(appName, source, verbose)
Process(appName, source) == Effect(processHelmSource(appName, source, world, nilSafe))

\* lines 241-247: spec is missing or not a map
SkipApp ==
    /\ pc = "apps"
    /\ ai <= Len(apps)
    /\ apps[ai].spec.t # "map"
    /\ ai' = ai + 1
    /\ si' = 0
    /\ UNCHANGED <<pc, cycle, apps, world, sink, nilSafe, listed, sink0, fetched,
                   emitted, skipped, last, arg, ret>>

\* lines 250-255: spec.source
SingleSource ==
    /\ pc = "apps"
    /\ ai <= Len(apps)
    /\ apps[ai].spec.t = "map"
    /\ si = 0
    /\ IF apps[ai].spec.source.t = "map"
       THEN Process(apps[ai].name, apps[ai].spec.source.m)
       ELSE UNCHANGED <<pc, sink, fetched, emitted, skipped, last>>
    /\ si' = 1
    /\ UNCHANGED <<cycle, apps, world, ai, nilSafe, listed, sink0, arg, ret>>

\* lines 262-271: one entry of spec.sources
MultiSource ==
    /\ pc = "apps"
    /\ ai <= Len(apps)
    /\ apps[ai].spec.t = "map"
    /\ si >= 1
    /\ apps[ai].spec.sources.t = "seq"
    /\ si <= Len(apps[ai].spec.sources.s)
    /\ IF apps[ai].spec.sources.s[si].t = "map"
       THEN Process(apps[ai].name, apps[ai].spec.sources.s[si].m)
       ELSE UNCHANGED <<pc, sink, fetched, emitted, skipped, last>>
    /\ si' = si + 1
    /\ UNCHANGED <<cycle, apps, world, ai, nilSafe, listed, sink0, arg, ret>>

\* lines 258, 272-275: spec.sources is exhausted or is not a sequence
NextApp ==
    /\ pc = "apps"
    /\ ai <= Len(apps)
    /\ apps[ai].spec.t = "map"
    /\ si >= 1
    /\ apps[ai].spec.sources.t = "seq" => si > Len(apps[ai].spec.sources.s)
    /\ ai' = ai + 1
    /\ si' = 0
    /\ UNCHANGED <<pc, cycle, apps, world, sink, nilSafe, listed, sink0, fetched,
                   emitted, skipped, last, arg, ret>>

\* lines 276-279: the range over list.Items is over
EndCycle ==
    /\ pc = "apps"
    /\ ai > Len(apps)
    /\ pc' = "sleep"
    /\ UNCHANGED <<cycle, apps, world, ai, si, sink, nilSafe, listed, sink0, fetched,
                   emitted, skipped, last, arg, ret>>

\* time.Sleep(60 * time.Second), then the next iteration of the loop
\* (the locals and the history of the iteration end with it)
Sleep ==
    /\ pc = "sleep"
    /\ pc' = "list"
    /\ apps' = <<>>
    /\ world' = AnyWorld
    /\ ai' = 1
    /\ si' = 0
    /\ listed' = FALSE
    /\ sink0' = sink
    /\ fetched' = <<>>
    /\ emitted' = <<>>
    /\ skipped' = <<>>
    /\ last' = NoCall
    /\ UNCHANGED <<cycle, sink, nilSafe, arg, ret>>

Next ==
    \/ ListOK
    \/ ListFail
    \/ SkipApp
    \/ SingleSource
    \/ MultiSource
    \/ NextApp
    \/ EndCycle
    \/ Sleep

Spec == Init /\ [][Next]_vars

(***************************************************************************)
(* getLatestChartVersion's scan applied on its own to a version list.      *)
(***************************************************************************)
VersionPool == {"1.0.0", "1.2.0", "1.1.0", "bogus", "v1.2", "1.0.0-rc.1", ""}

VersionLists == UNION {[1..n -> VersionPool] : n \in 1..MaxLen}

Idle ==
    /\ cycle = 0
    /\ apps = <<>>
    /\ world \in Worlds
    /\ ai = 1
    /\ si = 0
    /\ sink = EmptySink
    /\ nilSafe \in BOOLEAN
    /\ listed = FALSE
    /\ sink0 = EmptySink
    /\ fetched = <<>>
    /\ emitted = <<>>
    /\ skipped = <<>>
    /\ last = NoCall

InitLatest ==
    /\ pc = "call"
    /\ arg \in VersionLists
    /\ ret = <<>>
    /\ Idle
    /\ world = AnyWorld
    /\ nilSafe = TRUE

\* lines 71-88 on the version records arg
CallScan ==
    /\ pc = "call"
    /\ ret' = ScanVersions(arg)
    /\ pc' = "done"
    /\ UNCHANGED <<cycle, apps, world, ai, si, sink, nilSafe, listed, sink0, fetched,
                   emitted, skipped, last, arg>>

NextLatest == CallScan

SpecLatest == InitLatest /\ [][NextLatest]_vars

(***************************************************************************)
(* processHelmSource applied on its own to a source map.                   *)
(***************************************************************************)
ChartValues == {Absent, NilVal, IntVal, Str(""), Str("nginx")}
URLValues == {Absent, IntVal, Str(""), Str("https://x"), Str("https://x/"), Str("https://y//")}
RevisionValues == {Absent, NilVal, IntVal, Str(""), Str("1.0.0"), Str("bogus")}

SourceMaps == {Src(c, u, r) : c \in ChartValues, u \in URLValues, r \in RevisionValues}

InitSource ==
    /\ pc = "call"
    /\ arg \in SourceMaps
    /\ ret = NoCall
    /\ Idle

\* lines 92-172 on the source map arg
CallProcess ==
    /\ pc = "call"
    /\ ret' = processHelmSource("a", arg, world, nilSafe)
    /\ pc' = "done"
    /\ UNCHANGED <<cycle, apps, world, ai, si, sink, nilSafe, listed, sink0, fetched,
                   emitted, skipped, last, arg>>

NextSource == CallProcess

SpecSource == InitSource /\ [][NextSource]_vars

(***************************************************************************)
(* Properties.                                                             *)
(***************************************************************************)
Parses(str) == NewVersion(str).ok

SameVersion(a, b) == Parses(a) /\ Parses(b) /\ Compare(NewVersion(a), NewVersion(b)) = 0

Elems(seq) == {seq[i] : i \in 1..Len(seq)}

\* C1: whenever processHelmSource resolved a latest version, it sets the
\* gauge, to 1 if and only if the declared and the latest version both parse
\* and compare Equal, and the process goes on; in particular a declared
\* version that does not parse gives 0 whatever the latest version is.
C1_StatusOfEveryResolved ==
    last.res = "ok" =>
        /\ last.out = "set"
        /\ pc # "crashed"
        /\ last.value = IF SameVersion(last.desc.chartVersion, last.latest) THEN 1 ELSE 0

\* C2: the scan of any non-empty version list ends without a panic and
\* returns a listed string; the first string if no entry parses; and an
\* unparsable first entry followed by parsable ones aborts nothing.
C2_ScanToleratesUnparsable ==
    pc = "done" =>
        /\ ~ret.panic
        /\ ret.latest \in Elems(arg)
        /\ (\A i \in 1..Len(arg) : ~Parses(arg[i])) => ret.latest = arg[1]

\* C3: for a non-empty list of version records that all parse, in any
\* order, the scan returns a listed string than which no listed version is
\* Greater.
C3_MaximumOfParsable ==
    (pc = "done" /\ \A i \in 1..Len(arg) : Parses(arg[i])) =>
        /\ ~ret.panic
        /\ ret.latest \in Elems(arg)
        /\ \A i \in 1..Len(arg) : Compare(NewVersion(arg[i]), NewVersion(ret.latest)) <= 0

C3_Witness ==
    /\ pc = "done"
    /\ arg = <<"1.0.0", "1.2.0", "1.1.0">>
    /\ ret = [panic |-> FALSE, latest |-> "1.2.0"]

\* the maps among the entries of spec.sources, as calls
MapsOf(name, entries) ==
    IF entries = <<>> THEN <<>>
    ELSE [i \in 1..Len(entries) |-> [name |-> name, m |-> entries[i].m]]

\* the source maps of an application that main hands to processHelmSource
CallsOf(a) ==
    IF a.spec.t # "map" THEN <<>>
    ELSE (IF a.spec.source.t = "map"
          THEN <<[name |-> a.name, m |-> a.spec.source.m]>> ELSE <<>>)
         \o (IF a.spec.sources.t = "seq"
             THEN MapsOf(a.name, SelectSeq(a.spec.sources.s, LAMBDA e : e.t = "map"))
             ELSE <<>>)

RECURSIVE Calls(_)
\* the source maps of a listing that main hands to processHelmSource
Calls(l) == IF l = <<>> THEN <<>> ELSE CallsOf(Head(l)) \o Calls(Tail(l))

\* the complete source maps of a listing
Descriptors(l) == SelectSeq(Calls(l), LAMBDA c :
                      /\ c.m.chart.t = "string" /\ c.m.chart.v # ""
                      /\ c.m.repoURL.t = "string" /\ c.m.repoURL.v # ""
                      /\ c.m.targetRevision.t = "string" /\ c.m.targetRevision.v # "")

\* C4: a descriptor whose resolution failed gets no series and one fetch, and
\* the cycle goes on after it: the process does not stop in a cycle in which
\* a resolution failed, and at the end of the cycle every descriptor of the
\* listing was fetched once and either failed to resolve or got its sample.
C4_FailureIsolated ==
    /\ last.res = "err" => (last.out = "none" /\ Len(last.fetched) = 1)
    /\ \A i \in 1..Len(skipped) : \A j \in 1..Len(emitted) :
           emitted[j].key[1] = skipped[i][1] =>
               <<emitted[j].key[2], emitted[j].key[3], emitted[j].key[4]>> #
               <<skipped[i][2].chartName, skipped[i][2].repoURL, skipped[i][2].chartVersion>>
    /\ skipped # <<>> => pc # "crashed"
    /\ (listed /\ pc = "sleep") =>
           /\ Len(fetched) = Len(Descriptors(apps))
           /\ Len(emitted) + Len(skipped) = Len(Descriptors(apps))

\* C5: the URL fetched is the normalized repositoryURL followed directly by
\* "index.yaml", and the repo_url label is that same repositoryURL.
C5_IndexURL ==
    /\ last.fetched # <<>> => last.fetched = <<last.desc.repoURL \o "index.yaml">>
    /\ last.out = "set" => last.key[3] = last.desc.repoURL

Read(val) == IF val.t = "string" THEN val.v ELSE ""

EndsWithSlash(str) == Len(str) > 0 /\ SubSeq(str, Len(str), Len(str)) = "/"

\* C6: a missing or non-string field reads as empty; there is no descriptor,
\* no fetch, no sample and no error when chart is missing or nil or a field
\* is empty; otherwise chart and targetRevision are carried unchanged and
\* repositoryURL is the input, with one "/" appended unless it ends in "/".
C6_Extraction ==
    pc = "done" =>
        IF \/ arg.chart.t \in {"absent", "nil"}
           \/ Read(arg.chart) = "" \/ Read(arg.repoURL) = "" \/ Read(arg.targetRevision) = ""
        THEN /\ ~ret.desc.ok
             /\ ret.fetched = <<>>
             /\ ret.res = "none"
             /\ ret.out = "none"
        ELSE /\ ret.desc.ok
             /\ ret.desc.chartName = arg.chart.v
             /\ ret.desc.chartVersion = arg.targetRevision.v
             /\ ret.desc.repoURL = IF EndsWithSlash(arg.repoURL.v) THEN arg.repoURL.v
                                   ELSE arg.repoURL.v \o "/"

C6_Witness ==
    /\ pc = "done"
    /\ arg = Src(Str("nginx"), Str("https://x"), Str("1.0.0"))
    /\ ret.desc = [ok |-> TRUE, chartName |-> "nginx", repoURL |-> "https://x/",
                   chartVersion |-> "1.0.0"]

\* an application in which main finds no source map to process
Unrecognizable(a) ==
    \/ a.spec.t # "map"
    \/ /\ a.spec.source.t # "map"
       /\ a.spec.sources.t = "seq" =>
              \A i \in 1..Len(a.spec.sources.s) : a.spec.sources.s[i].t # "map"

\* C7: every series of the sink has non-empty chart and current_version
\* labels and a repo_url label that ends with "/"; an application without a
\* spec map, or with neither a source map nor a map in sources, adds no
\* series in the cycle and does not stop the process.
C7_OnlyValidatedSeries ==
    /\ \A k \in DOMAIN sink : k[2] # "" /\ k[4] # "" /\ EndsWithSlash(k[3])
    /\ \A i \in 1..Len(apps) :
           Unrecognizable(apps[i]) =>
               /\ \A j \in 1..Len(emitted) : emitted[j].key[1] # apps[i].name
               /\ (pc = "crashed" => ai # i)

C7_Witness ==
    /\ pc = "sleep"
    /\ listed
    /\ Len(apps) = 2
    /\ Unrecognizable(apps[1])
    /\ apps[1].spec.t = "map"
    /\ \E k \in DOMAIN sink : k[3] = "https://x/" /\ k[1] = "b"

\* C8: a step never removes a series; the value of a series changes only by
\* a sample of that very key, and a sample's value is the value of its key
\* afterwards.
C8_SeriesNeverRetracted ==
    [][/\ \A k \in DOMAIN sink :
              /\ k \in DOMAIN sink'
              /\ sink'[k] # sink[k] => (last'.out = "set" /\ last'.key = k /\ fetched' # fetched)
       /\ (last'.out = "set" /\ fetched' # fetched) => sink'[last'.key] = last'.value]_vars

C8_Witness ==
    /\ pc = "sleep"
    /\ listed
    /\ cycle = 2
    /\ emitted # <<>>
    /\ \E k \in DOMAIN sink :
           /\ sink[k] = 1
           /\ \A i \in 1..Len(apps) : apps[i].name # k[1]
           /\ \A j \in 1..Len(emitted) : emitted[j].key # k

Perms(n) == {p \in [1..n -> 1..n] : \A i, j \in 1..n : i # j => p[i] # p[j]}

\* the listings that list the applications of l in another order, each with
\* its sources in another order
Reorders(l) ==
    LET n == Len(l)
        len(i) == Len(l[i].spec.sources.s)
        orders == {qs \in [1..n -> UNION {Perms(len(i)) : i \in 1..n}] :
                      \A i \in 1..n : qs[i] \in Perms(len(i))}
        reseq(i, q) == [l[i] EXCEPT !.spec.sources.s =
                                        [k \in 1..len(i) |-> l[i].spec.sources.s[q[k]]]]
    IN  {[i \in 1..n |-> reseq(p[i], qs[p[i]])] : p \in Perms(n), qs \in orders}

SampleOf(r) == IF r.out = "set" THEN <<[key |-> r.key, value |-> r.value]>> ELSE <<>>

RECURSIVE SamplesOf(_, _, _)
\* the samples of a sequence of calls, in the order of the calls
SamplesOf(calls, w, ns) ==
    IF calls = <<>> THEN <<>>
    ELSE SampleOf(processHelmSource(Head(calls).name, Head(calls).m, w, ns))
         \o SamplesOf(Tail(calls), w, ns)

RECURSIVE SinkAfter(_, _)
SinkAfter(s, samples) ==
    IF samples = <<>> THEN s
    ELSE SinkAfter([k \in (DOMAIN s) \cup {Head(samples).key} |->
                       IF k = Head(samples).key THEN Head(samples).value ELSE s[k]],
                   Tail(samples))

\* C9: at the end of a cycle the samples were set in the order of the
\* listing, spec.source before spec.sources in sequence order, and the sink
\* is the one that any other order of the applications and of their sources
\* would have left.
C9_OrderIndependent ==
    (pc = "sleep" /\ listed) =>
        /\ emitted = SamplesOf(Calls(apps), world, nilSafe)
        /\ \A l \in Reorders(apps) :
               SinkAfter(sink0, SamplesOf(Calls(l), world, nilSafe)) = sink

C9_Witness ==
    /\ pc = "sleep"
    /\ listed
    /\ Len(apps) = 2
    /\ Len(emitted) = 4
    /\ \E i, j \in 1..Len(emitted) : emitted[i].value # emitted[j].value

\* C10: a cycle whose listing failed processes nothing, fetches nothing and
\* leaves the sink as it was; the process sleeps and goes on to the next
\* listing.
C10_ListingFailure ==
    (cycle > 0 /\ ~listed /\ pc # "list") =>
        /\ pc = "sleep"
        /\ sink = sink0
        /\ fetched = <<>>
        /\ emitted = <<>>
        /\ last = NoCall
        /\ ENABLED Sleep

C10_Witness ==
    /\ pc = "sleep"
    /\ ~listed
    /\ cycle = 2
    /\ \E k \in DOMAIN sink : sink[k] = 1
====
